---- MODULE Spec2Model ----
(***************************************************************************)
(* Model of app_exec of app_espeak.c: one execution of the eSpeak dialplan *)
(* application.  The call loads its configuration, consults the cache,     *)
(* runs the synthesizer into a raw PCM staging file, converts that file to *)
(* a wav file at the target rate, optionally saves it to the cache, plays  *)
(* it on the channel and removes its temporary files.                      *)
(*                                                                         *)
(* A float sample f is represented by the integer k with f = k / 32768,    *)
(* which is exact for every value sf_readf_float produces from 16-bit PCM. *)
(*                                                                         *)
(* Calls into the host and the libraries whose status app_exec ignores     *)
(* (ast_answer, sf_writef_float, ast_filecopy, remove, ast_filedelete) do  *)
(* what they are asked to; the calls whose status it tests (fopen, sf_open,*)
(* espeak_Initialize, ast_streamfile) fail or succeed, and sf_readf_float  *)
(* and malloc, whose results it does not test, may fall short.             *)
(***************************************************************************)
EXTENDS Integers, Sequences, FiniteSets

\* ---------------------------------------------------------------- bounds
\* Largest number of frames held by a sample buffer (source or destination).
MaxFrames == 3
\* Magnitude (in 1/32768 units) of a resampler output beyond full scale.
Overshoot == 40000

\* ------------------------------------------------------ program constants
DefaultRate == 8000
WideRate == 16000
\* samplerate key absent from espeak.conf (or no espeak.conf)
NoRate == -1
S16Min == -32768
S16Max == 32767
\* sf_readf_float divides by 0x8000, sf_writef_float multiplies by 0x7FFF
ReadNorm == 32768
WriteNorm == 32767

\* ------------------------------------------------------------ input sets
\* values of the samplerate key: absent, the two supported ones, and others
ConfRates == {NoRate, 8000, 11025, 16000}
\* rates espeak_Initialize can report; -1 is its error return
EngineRates == {8000, 16000, 22050}
\* samples the synthesizer emits: both ends of the 16-bit range and one
\* value in between
PcmVals == {S16Min, 20000, S16Max}
\* content of malloc'ed memory that was never written
GarbageVals == {0, Overshoot}
\* samples src_simple can emit: inside and outside the normalized range
ResampleVals == {-Overshoot, 0, Overshoot}
\* results of ast_waitstream: end of stream, an interrupting digit, hangup
WaitResults == {0, 35, -1}
\* arguments of the application: empty, or some text
DataVals == {"", "hello"}

SeqsUpTo(S, n) == UNION {[1..k -> S] : k \in 0..n}

VARIABLES
    pc,                 \* position inside app_exec
    data,               \* the application argument
    samplerate_conf,    \* [general] samplerate of espeak.conf
    usecache,           \* [general] usecache of espeak.conf
    cachePathFits,      \* strlen(cachedir) + strlen(MD5_name) + 5 <= MAXLEN
    cacheExists,        \* a cache file for the MD5 of the text is on disk
    cacheFound,         \* what ast_fileexists said: "unchecked", "missing", "found"
    cacheWritten,       \* this call copied its output to the cache file
    chanUp,             \* chan->_state == AST_STATE_UP
    target_sample_rate,
    writecache,
    res,
    sample_rate,
    engineUp,           \* espeak is initialized (process-wide state)
    initCalls,          \* successful espeak_Initialize calls
    termCalls,          \* espeak_Terminate calls
    flOpen, srcOpen, dstOpen,   \* FILE *fl, SNDFILE *src_file, *dst_file
    rawExists, rawData,         \* the raw PCM staging file and its samples
    wavExists, wavData, wavRate,\* the converted wav file
    srcBuf, dstBuf,     \* float *src, *dst: "none", "live", "null", "freed"
    src, dst,           \* contents of the two buffers
    src_frames,         \* src_info.frames
    dst_frames,         \* dst_info.frames
    framesRead,         \* what sf_readf_float returned
    resampleCalls,      \* calls of src_simple
    streamed,           \* file handed to ast_streamfile last: "none", "cache", "tmp"
    upAtStream,         \* chan was UP when the last ast_streamfile started
    waited,             \* ast_waitstream was called
    waitRes             \* what the last ast_waitstream returned

vars == <<pc, data, samplerate_conf, usecache, cachePathFits, cacheExists,
          cacheFound, cacheWritten, chanUp, target_sample_rate, writecache, res,
          sample_rate, engineUp, initCalls, termCalls, flOpen, srcOpen,
          dstOpen, rawExists, rawData, wavExists, wavData, wavRate, srcBuf,
          dstBuf, src, dst, src_frames, dst_frames, framesRead,
          resampleCalls, streamed, upAtStream, waited, waitRes>>

confVars == <<data, samplerate_conf, usecache, cachePathFits>>
engineVars == <<sample_rate, engineUp, initCalls, termCalls>>
fileVars == <<flOpen, srcOpen, dstOpen, rawExists, rawData, wavExists,
              wavData, wavRate>>
bufVars == <<srcBuf, dstBuf, src, dst, src_frames, dst_frames, framesRead,
             resampleCalls>>
playVars == <<chanUp, streamed, upAtStream, waited, waitRes>>
cacheVars == <<cacheExists, cacheFound, cacheWritten, writecache>>

Init ==
    /\ pc = "entry"
    /\ data \in DataVals
    /\ samplerate_conf \in ConfRates
    /\ usecache \in BOOLEAN
    /\ cachePathFits \in BOOLEAN
    /\ cacheExists \in BOOLEAN
    /\ chanUp \in BOOLEAN
    /\ cacheFound = "unchecked"
    /\ cacheWritten = FALSE
    /\ target_sample_rate = DefaultRate
    /\ writecache = 0
    /\ res = 0
    /\ sample_rate = 0
    /\ engineUp = FALSE
    /\ initCalls = 0
    /\ termCalls = 0
    /\ flOpen = FALSE /\ srcOpen = FALSE /\ dstOpen = FALSE
    /\ rawExists = FALSE /\ rawData = <<>>
    /\ wavExists = FALSE /\ wavData = <<>> /\ wavRate = 0
    /\ srcBuf = "none" /\ dstBuf = "none"
    /\ src = <<>> /\ dst = <<>>
    /\ src_frames = 0 /\ dst_frames = 0 /\ framesRead = 0
    /\ resampleCalls = 0
    /\ streamed = "none"
    /\ upAtStream = FALSE
    /\ waited = FALSE
    /\ waitRes = 0

\* ------------------------------------------------- lines 103-161: set up
\* atoi of the samplerate key when it is present, else the default
ConfiguredRate(conf) == IF conf = NoRate THEN DefaultRate ELSE conf

\* the fallback assignment of line 156 left out
NormalizeRate_Keep(r) == r

\* lines 152-157: an unsupported rate falls back to 8000 with a warning
NormalizeRate(r) ==
    IF r # DefaultRate /\ r # WideRate THEN DefaultRate ELSE r

\* line 103: no text, return -1 before anything else
RejectEmpty ==
    /\ pc = "entry"
    /\ data = ""
    /\ res' = -1
    /\ pc' = "done"
    /\ UNCHANGED <<confVars, cacheVars, engineVars, fileVars, bufVars,
                   playVars, target_sample_rate>>

Setup ==
    /\ pc = "entry"
    /\ data # ""
    /\ target_sample_rate' = NormalizeRate(ConfiguredRate(samplerate_conf))
    /\ pc' = "cache"
    /\ UNCHANGED <<confVars, cacheVars, engineVars, fileVars, bufVars,
                   playVars, res>>

\* --------------------------------------------- lines 163-188: the cache
\* line 164, 166: the cache is consulted
CacheActive == usecache /\ cachePathFits

\* writecache set whatever the lookup found
WriteCacheFlag_Always(found) == 1

\* line 169-171: what a cache lookup sets writecache to
WriteCacheFlag(found) == IF found THEN 0 ELSE 1

\* the cache is off, or its path does not fit
CacheSkip ==
    /\ pc = "cache"
    /\ ~CacheActive
    /\ pc' = "names"
    /\ UNCHANGED <<confVars, cacheVars, engineVars, fileVars, bufVars,
                   playVars, target_sample_rate, res>>

\* ast_fileexists(cachefile) <= 0
CacheMiss ==
    /\ pc = "cache"
    /\ CacheActive
    /\ ~cacheExists
    /\ cacheFound' = "missing"
    /\ writecache' = WriteCacheFlag(FALSE)
    /\ pc' = "names"
    /\ UNCHANGED <<confVars, cacheExists, cacheWritten, engineVars, fileVars,
                   bufVars, playVars, target_sample_rate, res>>

\* the ast_answer call left out
AnswerIfDown_Never(up) == up

\* lines 174-175 and 284-285: answer the channel unless it is up
AnswerIfDown(up) == IF up THEN up ELSE TRUE

\* the cache file exists: stream it; when the stream starts, wait and return
CacheHit ==
    /\ pc = "cache"
    /\ CacheActive
    /\ cacheExists
    /\ cacheFound' = "found"
    /\ writecache' = WriteCacheFlag(TRUE)
    /\ chanUp' = AnswerIfDown(chanUp)
    /\ upAtStream' = chanUp'
    /\ streamed' = "cache"
    /\ \E sres \in {0, -1} :
         IF sres # 0
         THEN /\ res' = sres
              /\ pc' = "names"
              /\ UNCHANGED <<waited, waitRes>>
         ELSE \E w \in WaitResults :
                /\ waited' = TRUE
                /\ waitRes' = w
                /\ res' = w
                /\ pc' = "done"
    /\ UNCHANGED <<confVars, cacheExists, cacheWritten, engineVars, fileVars,
                   bufVars, target_sample_rate>>

\* ------------------------------- lines 190-216: temp names, espeak start
Initialize ==
    /\ pc = "names"
    /\ \E r \in EngineRates \cup {-1} :
         /\ sample_rate' = r
         /\ IF r = -1
            THEN /\ res' = -1
                 /\ pc' = "done"
                 /\ UNCHANGED <<engineUp, initCalls>>
            ELSE /\ engineUp' = TRUE
                 /\ initCalls' = initCalls + 1
                 /\ pc' = "synth"
                 /\ UNCHANGED res
    /\ UNCHANGED <<confVars, cacheVars, termCalls, fileVars, bufVars,
                   playVars, target_sample_rate>>

\* ------------------------------ lines 218-228: synthesis into the raw file
\* fopen(raw_name, "w+") fails: return -1
OpenRawFails ==
    /\ pc = "synth"
    /\ res' = -1
    /\ pc' = "done"
    /\ UNCHANGED <<confVars, cacheVars, engineVars, fileVars, bufVars,
                   playVars, target_sample_rate>>

\* the frame count rounded to nearest instead of truncated
DstFrames_Rounded(n, t, s) == (2 * n * t + s) \div (2 * s)

\* line 256: dst_info.frames, computed in sf_count_t (integer) arithmetic
DstFrames(n, t, s) == (n * t) \div s

\* fopen succeeds; synth_callback appends the samples to the file;
\* espeak_Terminate; fclose.  The synthesizer's output is any sample
\* sequence for which both buffers stay within MaxFrames.
Synthesize ==
    /\ pc = "synth"
    /\ \E samples \in SeqsUpTo(PcmVals, MaxFrames) :
         /\ DstFrames(Len(samples), target_sample_rate, sample_rate)
               <= MaxFrames
         /\ rawData' = samples
    /\ rawExists' = TRUE
    /\ flOpen' = FALSE
    /\ engineUp' = FALSE
    /\ termCalls' = termCalls + 1
    /\ pc' = "open"
    /\ UNCHANGED <<confVars, cacheVars, sample_rate, initCalls, srcOpen,
                   dstOpen, wavExists, wavData, wavRate, bufVars, playVars,
                   target_sample_rate, res>>

\* ------------------------------------ lines 230-253: open the sound files
\* the remove call left out
RemoveRaw_Skip(exists) == exists

\* remove(raw_name), lines 240, 251 and 276
RemoveRaw(exists) == FALSE

\* sf_open(raw_name, SFM_READ) fails
SrcOpenFails ==
    /\ pc = "open"
    /\ rawExists' = RemoveRaw(rawExists)
    /\ rawData' = <<>>
    /\ res' = -1
    /\ pc' = "done"
    /\ UNCHANGED <<confVars, cacheVars, engineVars, flOpen, srcOpen, dstOpen,
                   wavExists, wavData, wavRate, bufVars, playVars,
                   target_sample_rate>>

\* sf_close, lines 250, 272 and 273
SfClose(open) == FALSE

\* sf_open(wav_name, SFM_WRITE) fails after the source was opened
DstOpenFails ==
    /\ pc = "open"
    /\ src_frames' = Len(rawData)
    /\ srcOpen' = SfClose(TRUE)
    /\ rawExists' = RemoveRaw(rawExists)
    /\ rawData' = <<>>
    /\ res' = -1
    /\ pc' = "done"
    /\ UNCHANGED <<confVars, cacheVars, engineVars, flOpen, dstOpen,
                   wavExists, wavData, wavRate, srcBuf, dstBuf, src, dst,
                   dst_frames, framesRead, resampleCalls, playVars,
                   target_sample_rate>>

\* both files open; the wav file is created with the target rate
OpenBoth ==
    /\ pc = "open"
    /\ src_frames' = Len(rawData)
    /\ srcOpen' = TRUE
    /\ dstOpen' = TRUE
    /\ wavExists' = TRUE
    /\ wavData' = <<>>
    /\ wavRate' = target_sample_rate
    /\ pc' = "convert"
    /\ UNCHANGED <<confVars, cacheVars, engineVars, flOpen, rawExists,
                   rawData, srcBuf, dstBuf, src, dst, dst_frames, framesRead,
                   resampleCalls, playVars, target_sample_rate, res>>

\* --------------------------------------- lines 254-270: the conversion
\* a / b rounded to the nearest integer, ties to even (lrintf), b > 0
RoundNearest(a, b) ==
    LET q == a \div b
        r == a % b
    IN  IF 2 * r < b THEN q
        ELSE IF 2 * r > b THEN q + 1
        ELSE IF q % 2 = 0 THEN q ELSE q + 1

\* the low 16 bits of v, read as a signed 16-bit integer
Wrap16(v) == ((v - S16Min) % (S16Max - S16Min + 1)) + S16Min

\* line 255, sf_readf_float of one 16-bit sample: p / 0x8000, kept as the
\* numerator over 32768
ReadSample(p) == (p * 32768) \div ReadNorm

\* line 270, sf_writef_float of one float to a 16-bit file.  The code never
\* turns clipping on (no sf_command(SFC_SET_CLIPPING)), so the scaled and
\* rounded value is truncated to its low 16 bits.
WriteSample(k) == Wrap16(RoundNearest(k * WriteNorm, 32768))

\* the rate comparison left out: the resampler always runs
NeedsResample_Always(s, t) == TRUE

\* line 259: the resampler runs when the two rates differ
NeedsResample(s, t) == s # t

\* lines 254-255: the source buffer after sf_readf_float returned got frames:
\* the frames read, followed by whatever malloc left in the rest
SrcAfterRead(got) ==
    { [i \in 1..src_frames |->
          IF i <= got THEN ReadSample(rawData[i]) ELSE tail[i]] :
        tail \in [1..src_frames -> GarbageVals] }

\* lines 268: memcpy of n floats
CopyFrames(buf, n) == [i \in 1..n |-> buf[i]]

\* malloc returns NULL for a buffer that has to hold frames: the first
\* access through it (sf_readf_float into src, memcpy or sf_writef_float
\* with dst) is undefined and the process dies; app_exec never returns
ConvertAllocFails ==
    /\ pc = "convert"
    /\ \/ /\ src_frames > 0
          /\ srcBuf' = "null"
          /\ UNCHANGED <<dstBuf, dst_frames>>
       \/ /\ DstFrames(src_frames, target_sample_rate, sample_rate) > 0
          /\ srcBuf' = "live"
          /\ dstBuf' = "null"
          /\ dst_frames' =
               DstFrames(src_frames, target_sample_rate, sample_rate)
    /\ pc' = "crashed"
    /\ UNCHANGED <<confVars, cacheVars, engineVars, fileVars, src, dst,
                   src_frames, framesRead, resampleCalls, playVars,
                   target_sample_rate, res>>

\* rates equal: dst is a copy of src
ConvertCopy ==
    /\ pc = "convert"
    /\ ~NeedsResample(sample_rate, target_sample_rate)
    /\ \E got \in 0..src_frames :
         /\ framesRead' = got
         /\ src' \in SrcAfterRead(got)
    /\ dst_frames' = DstFrames(src_frames, target_sample_rate, sample_rate)
    /\ dst' = CopyFrames(src', dst_frames')
    /\ wavData' = [i \in 1..dst_frames' |-> WriteSample(dst'[i])]
    /\ srcBuf' = "live"
    /\ dstBuf' = "live"
    /\ pc' = "finish"
    /\ UNCHANGED <<confVars, cacheVars, engineVars, flOpen, srcOpen, dstOpen,
                   rawExists, rawData, wavExists, wavRate, src_frames,
                   resampleCalls, playVars, target_sample_rate, res>>

\* rates differ: src_simple fills dst (its status is not looked at)
ConvertResample ==
    /\ pc = "convert"
    /\ NeedsResample(sample_rate, target_sample_rate)
    /\ \E got \in 0..src_frames :
         /\ framesRead' = got
         /\ src' \in SrcAfterRead(got)
    /\ dst_frames' = DstFrames(src_frames, target_sample_rate, sample_rate)
    /\ resampleCalls' = resampleCalls + 1
    /\ dst' \in [1..dst_frames' -> ResampleVals]
    /\ wavData' = [i \in 1..dst_frames' |-> WriteSample(dst'[i])]
    /\ srcBuf' = "live"
    /\ dstBuf' = "live"
    /\ pc' = "finish"
    /\ UNCHANGED <<confVars, cacheVars, engineVars, flOpen, srcOpen, dstOpen,
                   rawExists, rawData, wavExists, wavRate, src_frames,
                   playVars, target_sample_rate, res>>

\* ------------------------- lines 271-282: sync, close, free, cache copy
\* the free call left out
FreeBuf_Leak(b) == b

\* free, lines 274 and 275
FreeBuf(b) == "freed"

Finish ==
    /\ pc = "finish"
    /\ srcOpen' = SfClose(srcOpen)
    /\ dstOpen' = SfClose(dstOpen)
    /\ srcBuf' = FreeBuf(srcBuf)
    /\ dstBuf' = FreeBuf(dstBuf)
    /\ src' = <<>>
    /\ dst' = <<>>
    /\ rawExists' = RemoveRaw(rawExists)
    /\ rawData' = <<>>
    /\ IF writecache # 0
       THEN cacheWritten' = TRUE /\ cacheExists' = TRUE
       ELSE UNCHANGED <<cacheWritten, cacheExists>>
    /\ pc' = "play"
    /\ UNCHANGED <<confVars, writecache, cacheFound, engineVars, flOpen, wavExists,
                   wavData, wavRate, src_frames, dst_frames, framesRead,
                   resampleCalls, playVars, target_sample_rate, res>>

\* ----------------------------------------------- lines 284-292: playback
Play ==
    /\ pc = "play"
    /\ chanUp' = AnswerIfDown(chanUp)
    /\ upAtStream' = chanUp'
    /\ streamed' = "tmp"
    /\ \E sres \in {0, -1} :
         IF sres # 0
         THEN /\ res' = sres
              /\ UNCHANGED <<waited, waitRes>>
         ELSE \E w \in WaitResults :
                /\ waited' = TRUE
                /\ waitRes' = w
                /\ res' = w
    /\ pc' = "cleanup"
    /\ UNCHANGED <<confVars, cacheVars, engineVars, fileVars, bufVars,
                   target_sample_rate>>

\* --------------------------------- lines 294-296: delete the wav, return
Return ==
    /\ pc = "cleanup"
    /\ wavExists' = FALSE
    /\ wavData' = <<>>
    /\ pc' = "done"
    /\ UNCHANGED <<confVars, cacheVars, engineVars, flOpen, srcOpen, dstOpen,
                   rawExists, rawData, wavRate, bufVars, playVars,
                   target_sample_rate, res>>

Next ==
    \/ RejectEmpty
    \/ Setup
    \/ CacheSkip
    \/ CacheMiss
    \/ CacheHit
    \/ Initialize
    \/ OpenRawFails
    \/ Synthesize
    \/ SrcOpenFails
    \/ DstOpenFails
    \/ OpenBoth
    \/ ConvertCopy
    \/ ConvertResample
    \/ ConvertAllocFails
    \/ Finish
    \/ Play
    \/ Return

Spec == Init /\ [][Next]_vars

\* ======================================================== the claims
Supported(r) == r = 8000 \/ r = 16000
\* the configuration asks for a rate other than 8000 and 16000
UnsupportedRequested == samplerate_conf # NoRate /\ ~Supported(samplerate_conf)
\* the conversion of lines 254-270 ran to its end in this call
Converted == pc \in {"finish", "play", "cleanup"}
Saturate16(v) == IF v > S16Max THEN S16Max ELSE IF v < S16Min THEN S16Min ELSE v

\* C1 as stated: a call configured with a rate other than 8000 and 16000 is
\* rejected before synthesis: it returns an error, the synthesizer is never
\* started, and nothing is converted or played.
C1_UnsupportedRateRejected ==
    UnsupportedRequested =>
        /\ sample_rate = 0 /\ initCalls = 0
        /\ ~wavExists /\ wavRate = 0
        /\ streamed = "none"
        /\ (pc = "done" => res = -1)

\* C1 amended: a rate other than 8000 and 16000 is replaced by 8000 before
\* the cache lookup and the synthesis; the call is not rejected for it (it
\* returns only after it tried the cache stream or espeak_Initialize), and
\* every wav file it creates has rate 8000.
C1_UnsupportedRateFallsBack ==
    (UnsupportedRequested /\ data # "" /\ pc # "entry") =>
        /\ target_sample_rate = 8000
        /\ (wavExists => wavRate = 8000)
        /\ (pc = "done" => (streamed # "none" \/ sample_rate # 0))

\* C1 witness: a call configured with 11025 synthesized, converted to 8000,
\* played the result and returned 0.
C1_Witness ==
    /\ samplerate_conf = 11025
    /\ pc = "done" /\ res = 0
    /\ initCalls = 1 /\ resampleCalls = 1
    /\ wavRate = 8000 /\ streamed = "tmp" /\ waited

\* C2 as stated: when the rates differ, the number of frames written is
\* N * target / s rounded to the nearest integer (a tie may go either way).
C2_FramesRounded ==
    (Converted /\ sample_rate # target_sample_rate) =>
        LET n == src_frames * target_sample_rate
            L == Len(wavData)
        IN  \/ L = (2 * n + sample_rate) \div (2 * sample_rate)
            \/ L = RoundNearest(n, sample_rate)

\* C2 amended: when the rates differ, the number of frames written is
\* N * target / s truncated to an integer: L <= N * target / s < L + 1.
C2_FramesTruncated ==
    (Converted /\ sample_rate # target_sample_rate) =>
        LET n == src_frames * target_sample_rate
            L == Len(wavData)
        IN  /\ L * sample_rate <= n
            /\ n < (L + 1) * sample_rate
            /\ L = dst_frames

\* C2 witness: three frames at 16000 resampled to 8000 gave one frame.
C2_Witness ==
    /\ pc = "finish"
    /\ sample_rate = 16000 /\ target_sample_rate = 8000
    /\ src_frames = 3 /\ framesRead = 3
    /\ resampleCalls = 1
    /\ Len(wavData) = 1

\* C3: when the source rate equals the target rate the resampler is never
\* called, and after the conversion the destination buffer holds as many
\* frames as the source buffer and the same sample at every index.
C3_Passthrough ==
    (sample_rate = target_sample_rate) =>
        /\ resampleCalls = 0
        /\ (pc = "finish" =>
               /\ dst_frames = src_frames
               /\ Len(dst) = Len(src)
               /\ Len(src) = src_frames
               /\ \A i \in 1..src_frames : dst[i] = src[i])

\* C3 witness: a fully read buffer of two different samples was copied.
C3_Witness ==
    /\ pc = "finish"
    /\ sample_rate = target_sample_rate
    /\ src_frames >= 2 /\ framesRead = src_frames
    /\ src[1] # src[2]
    /\ dst = src
    /\ Len(wavData) = src_frames

\* C4 as stated: after a short read of the source file or a failed buffer
\* allocation, nothing is resampled, written to the wav file or played, and
\* the call returns an error to its caller.
C4_ReadOrAllocFailureReported ==
    (\/ srcBuf \in {"live", "freed"} /\ framesRead < src_frames
     \/ srcBuf = "null"
     \/ dstBuf = "null") =>
        /\ resampleCalls = 0
        /\ wavData = <<>>
        /\ streamed # "tmp"
        /\ pc # "crashed"
        /\ (pc = "done" => res = -1)

\* C5: when app_exec has returned, no file handle it opened is still open
\* and no buffer it allocated is still allocated.
C5_NothingHeldAtReturn ==
    pc = "done" =>
        /\ ~flOpen /\ ~srcOpen /\ ~dstOpen
        /\ srcBuf \in {"none", "freed"}
        /\ dstBuf \in {"none", "freed"}

\* C5 witness: a call that allocated both buffers and opened all three
\* files has returned.
C5_Witness ==
    /\ pc = "done"
    /\ srcBuf = "freed" /\ dstBuf = "freed"
    /\ termCalls = 1 /\ wavRate # 0 /\ src_frames > 0

\* C6 as stated: after a full read and a resampling, every sample written
\* to the wav file is the resampler's float sample scaled, rounded and
\* saturated to [-32768, 32767].
C6_OutputSaturated ==
    (pc = "finish" /\ resampleCalls = 1 /\ framesRead = src_frames) =>
        \A i \in 1..Len(wavData) :
            wavData[i] = Saturate16(RoundNearest(dst[i] * WriteNorm, 32768))

\* C7 as stated: when app_exec has returned after a successful
\* espeak_Initialize, espeak_Terminate was called exactly once and the
\* engine is no longer initialized.
C7_TerminatedAtReturn ==
    (pc = "done" /\ initCalls > 0) => (termCalls = 1 /\ ~engineUp)

C9_CacheHitAndCacheWrite ==
    /\ ((cacheFound = "found" /\ waited /\ streamed = "cache") =>
           /\ pc = "done" /\ res = waitRes
           /\ sample_rate = 0 /\ initCalls = 0 /\ termCalls = 0
           /\ ~rawExists /\ ~wavExists /\ wavRate = 0
           /\ ~cacheWritten)
    /\ (cacheWritten =>
           /\ cacheFound = "missing"
           /\ pc \in {"play", "cleanup", "done"}
           /\ wavRate # 0 /\ ~srcOpen /\ ~dstOpen
           /\ srcBuf = "freed" /\ dstBuf = "freed")

\* C9 witness: a cache hit was streamed and the call returned the key that
\* interrupted it.
C9_Witness ==
    /\ pc = "done"
    /\ usecache /\ cacheFound = "found"
    /\ streamed = "cache" /\ waited /\ res = 35
    /\ initCalls = 0

\* C10: when app_exec has returned, neither the raw staging file nor the
\* converted wav file exists.
C10_NoTempFileAtReturn ==
    pc = "done" => (~rawExists /\ ~wavExists)

\* C10 witness: the call returned an error because the wav file could not
\* be created, after the raw file had been written and opened.
C10_Witness ==
    /\ pc = "done" /\ res = -1
    /\ termCalls = 1 /\ src_frames > 0
    /\ wavRate = 0

====
